---- MODULE Spec2Model ----
(***************************************************************************)
(* A model of miniz (src/src/lib.rs): a tiny in-memory implementation of   *)
(* the Zanzibar data model.  The frozen schema and the tuple store are the *)
(* fields of MiniZ; every public method of MiniZ is one action.            *)
(***************************************************************************)
EXTENDS Integers, Sequences, FiniteSets, TLC

\* ------------------------------------------------------------------------
\* Identifiers.  ObjectId and UserId are the caller's Ord types; the test
\* uses &'static str newtypes, here numbered in their string order.

dir1 == 1
doc123 == 2

user_alice == 1
user_bob == 2

ObjectIds == {dir1, doc123}
UserIds == {user_alice, user_bob}

\* Every relationship name used by the model, in the order of String's Ord
\* (RelationshipId derives Ord from its String).
RidOrder == <<"admin", "editor", "owner", "parent", "viewer">>

RelationshipIds == {RidOrder[i] : i \in 1..Len(RidOrder)}

RidRank(rid) == CHOOSE i \in 1..Len(RidOrder) : RidOrder[i] = rid

RidLess(a, b) == RidRank(a) < RidRank(b)

\* The number of tuples a store may hold before writes stop.
MaxTuples == 2

\* ------------------------------------------------------------------------
\* Member and Membership, with their derived orderings.

Object(o) == [tag |-> "Object", id |-> o]

User(u) == [tag |-> "User", id |-> u]

Members == {Object(o) : o \in ObjectIds} \cup {User(u) : u \in UserIds}

\* An order on Member that puts the User variant before the Object variant.
MemberLess_users_first(a, b) ==
    IF a.tag # b.tag THEN a.tag = "User" ELSE a.id < b.id

\* derive(Ord) on an enum: variants in declaration order, then the payload.
MemberLess(a, b) ==
    IF a.tag # b.tag THEN a.tag = "Object" ELSE a.id < b.id

Membership(rid, object) == [rid |-> rid, object |-> object]

\* derive(Ord) on a struct: fields in declaration order.
MembershipLess(a, b) ==
    IF a.rid # b.rid THEN RidLess(a.rid, b.rid) ELSE a.object < b.object

\* BTreeSet<RelationshipId>::iter: ascending order.
iter_rids(S) == SelectSeq(RidOrder, LAMBDA r : r \in S)

RECURSIVE iter_members(_)
\* BTreeSet<Member>::iter().collect(): ascending order.
iter_members(S) ==
    IF S = {} THEN <<>>
    ELSE LET least == CHOOSE x \in S : \A y \in S : x = y \/ MemberLess(x, y)
         IN  <<least>> \o iter_members(S \ {least})

RECURSIVE iter_memberships(_)
\* BTreeSet<Membership>::iter().collect(): ascending order.
iter_memberships(S) ==
    IF S = {} THEN <<>>
    ELSE LET least == CHOOSE x \in S : \A y \in S : x = y \/ MembershipLess(x, y)
         IN  <<least>> \o iter_memberships(S \ {least})

\* ------------------------------------------------------------------------
\* BTreeMap operations used by the code.

EmptyMap == [k \in {} |-> {}]

\* BTreeMap::insert(k, v): adds or replaces the entry.
map_insert(m, k, v) == [x \in DOMAIN m \cup {k} |-> IF x = k THEN v ELSE m[x]]

\* BTreeMap::entry(k).or_insert_with(BTreeSet::new): the map afterwards.
entry_or_insert(m, k) == IF k \in DOMAIN m THEN m ELSE map_insert(m, k, {})

\* ------------------------------------------------------------------------
\* Outcomes of a call: a returned value, a panic, or a recursion that never
\* returns.

\* A returned bool.
Ok(v) == [status |-> "ok", value |-> v]

\* A returned Vec.
OkVec(v) == [status |-> "ok", list |-> v]

\* A return from a method without a return value.
OkUnit == [status |-> "ok"]

Panic(msg) == [status |-> "panic", msg |-> msg]

Diverges == [status |-> "diverges"]

\* ------------------------------------------------------------------------
\* The builders.

\* MiniZ::builder
MiniZ_builder == [relationships |-> EmptyMap]

\* MiniZBuilder::new_relationship
new_relationship(relationship_name) ==
    [name |-> relationship_name,
     contained_relationships |-> {},
     inherited_relationships |-> {}]

\* RelationshipBuilder::with_subset
with_subset(rb, subrid) ==
    [rb EXCEPT !.contained_relationships = @ \cup {subrid}]

\* RelationshipBuilder::with_inherited_set
with_inherited_set(rb, rid) ==
    [rb EXCEPT !.inherited_relationships = @ \cup {rid}]

\* RelationshipBuilder::build that adds the configured sets to those of a
\* relationship already registered under the name.
RelationshipBuilder_build_merges(builder, rb) ==
    LET known == rb.name \in DOMAIN builder.relationships
        earlier == builder.relationships[rb.name]
    IN  [relationships |->
            map_insert(builder.relationships, rb.name,
                [direct_members |-> EmptyMap,
                 contained_relationships |->
                     rb.contained_relationships \cup
                         (IF known THEN earlier.contained_relationships ELSE {}),
                 inherited_relationships |->
                     rb.inherited_relationships \cup
                         (IF known THEN earlier.inherited_relationships ELSE {})])]

\* RelationshipBuilder::build: the parent MiniZBuilder afterwards (the
\* returned RelationshipId is rb.name).
RelationshipBuilder_build(builder, rb) ==
    [relationships |->
        map_insert(builder.relationships, rb.name,
            [direct_members |-> EmptyMap,
             contained_relationships |-> rb.contained_relationships,
             inherited_relationships |-> rb.inherited_relationships])]

\* RelationshipBuilder::build: the RelationshipId it returns, which wraps
\* the name and compares as the name does.
RelationshipBuilder_build_rid(rb) == rb.name

\* MiniZBuilder::build
MiniZBuilder_build(builder) ==
    [sets |-> builder.relationships, memberships |-> EmptyMap]

\* The configuration of test_example (Figure 1 of the Zanzibar paper).
ExampleBuilder ==
    LET b1 == RelationshipBuilder_build(MiniZ_builder, new_relationship("owner"))
        b2 == RelationshipBuilder_build(b1, new_relationship("parent"))
        b3 == RelationshipBuilder_build(b2,
                  with_subset(new_relationship("editor"), "owner"))
    IN  RelationshipBuilder_build(b3,
            with_inherited_set(
                with_subset(new_relationship("viewer"), "editor"), "parent"))

\* The same configuration, except that "editor" also names "admin" as a
\* subset, a RelationshipId that was built by another MiniZBuilder and is
\* not defined in this one.
DanglingBuilder ==
    LET b1 == RelationshipBuilder_build(MiniZ_builder, new_relationship("owner"))
        b2 == RelationshipBuilder_build(b1, new_relationship("parent"))
        b3 == RelationshipBuilder_build(b2,
                  with_subset(with_subset(new_relationship("editor"), "admin"),
                              "owner"))
    IN  RelationshipBuilder_build(b3,
            with_inherited_set(
                with_subset(new_relationship("viewer"), "editor"), "parent"))

\* The configurations a store is built from.
Builders == {ExampleBuilder, DanglingBuilder}

\* The configuration of test_example, except that "parent" is registered a
\* second time, now inheriting itself (its own RelationshipId, returned by
\* the first registration) and "admin", a RelationshipId that is not
\* defined in this builder.
SelfInheritBuilder ==
    LET b1 == RelationshipBuilder_build(MiniZ_builder, new_relationship("owner"))
        b2 == RelationshipBuilder_build(b1, new_relationship("parent"))
        b3 == RelationshipBuilder_build(b2,
                  with_inherited_set(
                      with_inherited_set(new_relationship("parent"), "admin"),
                      "parent"))
        b4 == RelationshipBuilder_build(b3,
                  with_subset(new_relationship("editor"), "owner"))
    IN  RelationshipBuilder_build(b4,
            with_inherited_set(
                with_subset(new_relationship("viewer"), "editor"), "parent"))

\* A configuration whose contained sets form a cycle: "editor" contains
\* "viewer" and "viewer", registered a second time, contains "editor" (and
\* "owner"); "owner" names the undefined "admin" as a subset.
ContainedCycleBuilder ==
    LET b1 == RelationshipBuilder_build(MiniZ_builder,
                  with_subset(new_relationship("owner"), "admin"))
        b2 == RelationshipBuilder_build(b1, new_relationship("parent"))
        b3 == RelationshipBuilder_build(b2, new_relationship("viewer"))
        b4 == RelationshipBuilder_build(b3,
                  with_subset(new_relationship("editor"), "viewer"))
    IN  RelationshipBuilder_build(b4,
            with_inherited_set(
                with_subset(with_subset(new_relationship("viewer"), "editor"),
                            "owner"),
                "parent"))

\* The configurations with a cycle.
CyclicBuilders == {SelfInheritBuilder, ContainedCycleBuilder}

\* ------------------------------------------------------------------------
\* MiniZ: write operations.  Each returns the store as the call leaves it
\* and the outcome of the call.

NoSuchSet == Panic("no such set")

AssertionFailed == Panic("assertion failed")

Outcome(self, result) == [self |-> self, result |-> result]

\* write_object with the reverse-index entry filed under the container
\* instead of the member.
write_object_swapped_index(self, rid, parent, child) ==
    IF rid \notin DOMAIN self.sets THEN Outcome(self, NoSuchSet)
    ELSE
      LET entered == entry_or_insert(self.sets[rid].direct_members, parent)
          new_value == Object(child)
          self1 == [self EXCEPT !.sets[rid].direct_members = entered]
      IN  IF new_value \in entered[parent] THEN Outcome(self1, AssertionFailed)
          ELSE
            LET members == [entered EXCEPT ![parent] = @ \cup {new_value}]
                index == entry_or_insert(self.memberships, Object(parent))
                memberships ==
                    [index EXCEPT ![Object(parent)] = @ \cup {Membership(rid, child)}]
            IN  Outcome([sets |-> [self.sets EXCEPT ![rid].direct_members = members],
                         memberships |-> memberships],
                        OkUnit)

\* write_object with BTreeMap::insert in place of entry().or_insert_with():
\* the member set of the container is replaced by the new member alone.
write_object_replaces(self, rid, parent, child) ==
    IF rid \notin DOMAIN self.sets THEN Outcome(self, NoSuchSet)
    ELSE
      LET entered == entry_or_insert(self.sets[rid].direct_members, parent)
          new_value == Object(child)
          self1 == [self EXCEPT !.sets[rid].direct_members = entered]
      IN  IF new_value \in entered[parent] THEN Outcome(self1, AssertionFailed)
          ELSE
            LET members == map_insert(entered, parent, {new_value})
                index == entry_or_insert(self.memberships, new_value)
                memberships ==
                    [index EXCEPT ![new_value] = @ \cup {Membership(rid, parent)}]
            IN  Outcome([sets |-> [self.sets EXCEPT ![rid].direct_members = members],
                         memberships |-> memberships],
                        OkUnit)

\* write_object that updates the reverse index before it looks the
\* relationship up.
write_object_index_first(self, rid, parent, child) ==
    LET new_value == Object(child)
        index == entry_or_insert(self.memberships, new_value)
        memberships ==
            [index EXCEPT ![new_value] = @ \cup {Membership(rid, parent)}]
    IN  IF rid \notin DOMAIN self.sets
        THEN Outcome([self EXCEPT !.memberships = memberships], NoSuchSet)
        ELSE
          LET entered == entry_or_insert(self.sets[rid].direct_members, parent)
              self1 == [self EXCEPT !.sets[rid].direct_members = entered]
          IN  IF new_value \in entered[parent]
              THEN Outcome(self1, AssertionFailed)
              ELSE
                LET members == [entered EXCEPT ![parent] = @ \cup {new_value}]
                IN  Outcome([sets |-> [self.sets EXCEPT
                                          ![rid].direct_members = members],
                             memberships |-> memberships],
                            OkUnit)

\* write_object that files the Membership under the container as well as
\* under the member.
write_object_indexes_container(self, rid, parent, child) ==
    IF rid \notin DOMAIN self.sets THEN Outcome(self, NoSuchSet)
    ELSE
      LET entered == entry_or_insert(self.sets[rid].direct_members, parent)
          new_value == Object(child)
          self1 == [self EXCEPT !.sets[rid].direct_members = entered]
      IN  IF new_value \in entered[parent] THEN Outcome(self1, AssertionFailed)
          ELSE
            LET members == [entered EXCEPT ![parent] = @ \cup {new_value}]
                index == entry_or_insert(
                             entry_or_insert(self.memberships, new_value),
                             Object(parent))
                memberships ==
                    [index EXCEPT
                        ![new_value] = @ \cup {Membership(rid, parent)},
                        ![Object(parent)] = @ \cup {Membership(rid, parent)}]
            IN  Outcome([sets |-> [self.sets EXCEPT ![rid].direct_members = members],
                         memberships |-> memberships],
                        OkUnit)

\* MiniZ::write_object
write_object(self, rid, parent, child) ==
    IF rid \notin DOMAIN self.sets THEN Outcome(self, NoSuchSet)
    ELSE
      LET entered == entry_or_insert(self.sets[rid].direct_members, parent)
          new_value == Object(child)
          self1 == [self EXCEPT !.sets[rid].direct_members = entered]
      IN  IF new_value \in entered[parent] THEN Outcome(self1, AssertionFailed)
          ELSE
            LET members == [entered EXCEPT ![parent] = @ \cup {new_value}]
                index == entry_or_insert(self.memberships, new_value)
                memberships ==
                    [index EXCEPT ![new_value] = @ \cup {Membership(rid, parent)}]
            IN  Outcome([sets |-> [self.sets EXCEPT ![rid].direct_members = members],
                         memberships |-> memberships],
                        OkUnit)

\* write_user without the update of the reverse index.
write_user_no_index(self, rid, parent, child) ==
    IF rid \notin DOMAIN self.sets THEN Outcome(self, NoSuchSet)
    ELSE
      LET entered == entry_or_insert(self.sets[rid].direct_members, parent)
          new_value == User(child)
          self1 == [self EXCEPT !.sets[rid].direct_members = entered]
      IN  IF new_value \in entered[parent] THEN Outcome(self1, AssertionFailed)
          ELSE
            LET members == [entered EXCEPT ![parent] = @ \cup {new_value}]
            IN  Outcome([self EXCEPT !.sets[rid].direct_members = members],
                        OkUnit)

\* write_user without its assertions: a duplicate is inserted again and
\* the call returns.
write_user_overwrites(self, rid, parent, child) ==
    IF rid \notin DOMAIN self.sets THEN Outcome(self, NoSuchSet)
    ELSE
      LET entered == entry_or_insert(self.sets[rid].direct_members, parent)
          new_value == User(child)
          members == [entered EXCEPT ![parent] = @ \cup {new_value}]
          index == entry_or_insert(self.memberships, new_value)
          memberships ==
              [index EXCEPT ![new_value] = @ \cup {Membership(rid, parent)}]
      IN  Outcome([sets |-> [self.sets EXCEPT ![rid].direct_members = members],
                   memberships |-> memberships],
                  OkUnit)

\* write_user that stores a rebuilt Relationship, with empty contained and
\* inherited sets, in place of the one it looked up.
write_user_rebuilds_relationship(self, rid, parent, child) ==
    IF rid \notin DOMAIN self.sets THEN Outcome(self, NoSuchSet)
    ELSE
      LET entered == entry_or_insert(self.sets[rid].direct_members, parent)
          new_value == User(child)
          self1 == [self EXCEPT !.sets[rid].direct_members = entered]
      IN  IF new_value \in entered[parent] THEN Outcome(self1, AssertionFailed)
          ELSE
            LET members == [entered EXCEPT ![parent] = @ \cup {new_value}]
                index == entry_or_insert(self.memberships, new_value)
                memberships ==
                    [index EXCEPT ![new_value] = @ \cup {Membership(rid, parent)}]
            IN  Outcome([sets |-> map_insert(self.sets, rid,
                                     [direct_members |-> members,
                                      contained_relationships |-> {},
                                      inherited_relationships |-> {}]),
                         memberships |-> memberships],
                        OkUnit)

\* write_user that starts the reverse-index entry of the member afresh
\* whenever the container had no entry in direct_members yet.
write_user_index_restarts(self, rid, parent, child) ==
    IF rid \notin DOMAIN self.sets THEN Outcome(self, NoSuchSet)
    ELSE
      LET entered == entry_or_insert(self.sets[rid].direct_members, parent)
          new_value == User(child)
          self1 == [self EXCEPT !.sets[rid].direct_members = entered]
      IN  IF new_value \in entered[parent] THEN Outcome(self1, AssertionFailed)
          ELSE
            LET members == [entered EXCEPT ![parent] = @ \cup {new_value}]
                index ==
                    IF parent \in DOMAIN self.sets[rid].direct_members
                    THEN entry_or_insert(self.memberships, new_value)
                    ELSE map_insert(self.memberships, new_value, {})
                memberships ==
                    [index EXCEPT ![new_value] = @ \cup {Membership(rid, parent)}]
            IN  Outcome([sets |-> [self.sets EXCEPT ![rid].direct_members = members],
                         memberships |-> memberships],
                        OkUnit)

\* MiniZ::write_user
write_user(self, rid, parent, child) ==
    IF rid \notin DOMAIN self.sets THEN Outcome(self, NoSuchSet)
    ELSE
      LET entered == entry_or_insert(self.sets[rid].direct_members, parent)
          new_value == User(child)
          self1 == [self EXCEPT !.sets[rid].direct_members = entered]
      IN  IF new_value \in entered[parent] THEN Outcome(self1, AssertionFailed)
          ELSE
            LET members == [entered EXCEPT ![parent] = @ \cup {new_value}]
                index == entry_or_insert(self.memberships, new_value)
                memberships ==
                    [index EXCEPT ![new_value] = @ \cup {Membership(rid, parent)}]
            IN  Outcome([sets |-> [self.sets EXCEPT ![rid].direct_members = members],
                         memberships |-> memberships],
                        OkUnit)

\* ------------------------------------------------------------------------
\* MiniZ: read operations.  They take &self; the store they leave is the
\* store they were given.

\* MiniZ::set_contains_object_directly
set_contains_object_directly(self, rid, parent, child) ==
    IF rid \notin DOMAIN self.sets THEN Outcome(self, NoSuchSet)
    ELSE LET direct_members == self.sets[rid].direct_members
         IN  IF parent \in DOMAIN direct_members
             THEN Outcome(self, Ok(Object(child) \in direct_members[parent]))
             ELSE Outcome(self, Ok(FALSE))

\* set_contains_user_directly that looks the container up with
\* entry().or_insert_with(), which files an empty set for an absent one.
set_contains_user_directly_entry(self, rid, parent, child) ==
    IF rid \notin DOMAIN self.sets THEN Outcome(self, NoSuchSet)
    ELSE LET entered == entry_or_insert(self.sets[rid].direct_members, parent)
         IN  Outcome([self EXCEPT !.sets[rid].direct_members = entered],
                     Ok(User(child) \in entered[parent]))

\* MiniZ::set_contains_user_directly
set_contains_user_directly(self, rid, parent, child) ==
    IF rid \notin DOMAIN self.sets THEN Outcome(self, NoSuchSet)
    ELSE LET direct_members == self.sets[rid].direct_members
         IN  IF parent \in DOMAIN direct_members
             THEN Outcome(self, Ok(User(child) \in direct_members[parent]))
             ELSE Outcome(self, Ok(FALSE))

\* set_list_direct_members that unwraps the container's entry instead of
\* matching on it.
set_list_direct_members_unwrap(self, rid, parent) ==
    IF rid \notin DOMAIN self.sets THEN Outcome(self, NoSuchSet)
    ELSE LET direct_members == self.sets[rid].direct_members
         IN  IF parent \in DOMAIN direct_members
             THEN Outcome(self, OkVec(iter_members(direct_members[parent])))
             ELSE Outcome(self, Panic("unwrap on None"))

\* MiniZ::set_list_direct_members
set_list_direct_members(self, rid, parent) ==
    IF rid \notin DOMAIN self.sets THEN Outcome(self, NoSuchSet)
    ELSE LET direct_members == self.sets[rid].direct_members
         IN  IF parent \in DOMAIN direct_members
             THEN Outcome(self, OkVec(iter_members(direct_members[parent])))
             ELSE Outcome(self, OkVec(<<>>))

\* MiniZ::object_lookup_memberships
object_lookup_memberships(self, object) ==
    IF Object(object) \in DOMAIN self.memberships
    THEN Outcome(self, OkVec(iter_memberships(self.memberships[Object(object)])))
    ELSE Outcome(self, OkVec(<<>>))

\* MiniZ::user_lookup_memberships
user_lookup_memberships(self, user) ==
    IF User(user) \in DOMAIN self.memberships
    THEN Outcome(self, OkVec(iter_memberships(self.memberships[User(user)])))
    ELSE Outcome(self, OkVec(<<>>))

RECURSIVE check_member_on(_, _, _, _, _)
RECURSIVE check_first(_, _, _, _)

\* check_member whose second rule looks only at the direct members of the
\* contained relationships, without recursing into them.
check_member_on_one_level(self, rid, object, user, stack) ==
    IF rid \notin DOMAIN self.sets THEN NoSuchSet
    ELSE IF <<rid, object>> \in stack THEN Diverges
    ELSE
      LET set == self.sets[rid]
          running == stack \cup {<<rid, object>>}
          direct ==
              /\ object \in DOMAIN set.direct_members
              /\ User(user) \in set.direct_members[object]
          contained ==
              \E subrid \in set.contained_relationships \cap DOMAIN self.sets :
                  /\ object \in DOMAIN self.sets[subrid].direct_members
                  /\ User(user) \in self.sets[subrid].direct_members[object]
          inherited_present_memberships ==
              SelectSeq(iter_memberships(self.memberships[Object(object)]),
                        LAMBDA m : m.rid \in set.inherited_relationships)
          inherited ==
              check_first(self,
                  [i \in 1..Len(inherited_present_memberships) |->
                      <<inherited_present_memberships[i].rid,
                        inherited_present_memberships[i].object>>],
                  user, running)
      IN  IF direct \/ contained THEN Ok(TRUE)
          ELSE IF Object(object) \notin DOMAIN self.memberships THEN Ok(FALSE)
          ELSE inherited

\* check_member whose first rule looks the user up in the reverse index
\* for the object alone, whatever the relationship.
check_member_on_any_rid(self, rid, object, user, stack) ==
    IF rid \notin DOMAIN self.sets THEN NoSuchSet
    ELSE IF <<rid, object>> \in stack THEN Diverges
    ELSE
      LET set == self.sets[rid]
          running == stack \cup {<<rid, object>>}
          direct ==
              /\ User(user) \in DOMAIN self.memberships
              /\ \E m \in self.memberships[User(user)] : m.object = object
          contained ==
              check_first(self,
                  [i \in 1..Len(iter_rids(set.contained_relationships)) |->
                      <<iter_rids(set.contained_relationships)[i], object>>],
                  user, running)
          inherited_present_memberships ==
              SelectSeq(iter_memberships(self.memberships[Object(object)]),
                        LAMBDA m : m.rid \in set.inherited_relationships)
          inherited ==
              check_first(self,
                  [i \in 1..Len(inherited_present_memberships) |->
                      <<inherited_present_memberships[i].rid,
                        inherited_present_memberships[i].object>>],
                  user, running)
      IN  IF direct THEN Ok(TRUE)
          ELSE IF contained # Ok(FALSE) THEN contained
          ELSE IF Object(object) \notin DOMAIN self.memberships THEN Ok(FALSE)
          ELSE inherited

\* check_member with a guard that answers false for a call whose
\* (rid, object) is already running.
check_member_on_guarded(self, rid, object, user, stack) ==
    IF rid \notin DOMAIN self.sets THEN NoSuchSet
    ELSE IF <<rid, object>> \in stack THEN Ok(FALSE)
    ELSE
      LET set == self.sets[rid]
          running == stack \cup {<<rid, object>>}
          direct ==
              /\ object \in DOMAIN set.direct_members
              /\ User(user) \in set.direct_members[object]
          contained ==
              check_first(self,
                  [i \in 1..Len(iter_rids(set.contained_relationships)) |->
                      <<iter_rids(set.contained_relationships)[i], object>>],
                  user, running)
          inherited_present_memberships ==
              SelectSeq(iter_memberships(self.memberships[Object(object)]),
                        LAMBDA m : m.rid \in set.inherited_relationships)
          inherited ==
              check_first(self,
                  [i \in 1..Len(inherited_present_memberships) |->
                      <<inherited_present_memberships[i].rid,
                        inherited_present_memberships[i].object>>],
                  user, running)
      IN  IF direct THEN Ok(TRUE)
          ELSE IF contained # Ok(FALSE) THEN contained
          ELSE IF Object(object) \notin DOMAIN self.memberships THEN Ok(FALSE)
          ELSE inherited

\* check_member whose recursion along a tuple keeps the relationship being
\* checked instead of taking the one of the reverse-index entry.
check_member_on_outer_rid(self, rid, object, user, stack) ==
    IF rid \notin DOMAIN self.sets THEN NoSuchSet
    ELSE IF <<rid, object>> \in stack THEN Diverges
    ELSE
      LET set == self.sets[rid]
          running == stack \cup {<<rid, object>>}
          direct ==
              /\ object \in DOMAIN set.direct_members
              /\ User(user) \in set.direct_members[object]
          contained ==
              check_first(self,
                  [i \in 1..Len(iter_rids(set.contained_relationships)) |->
                      <<iter_rids(set.contained_relationships)[i], object>>],
                  user, running)
          inherited_present_memberships ==
              SelectSeq(iter_memberships(self.memberships[Object(object)]),
                        LAMBDA m : m.rid \in set.inherited_relationships)
          inherited ==
              check_first(self,
                  [i \in 1..Len(inherited_present_memberships) |->
                      <<rid,
                        inherited_present_memberships[i].object>>],
                  user, running)
      IN  IF direct THEN Ok(TRUE)
          ELSE IF contained # Ok(FALSE) THEN contained
          ELSE IF Object(object) \notin DOMAIN self.memberships THEN Ok(FALSE)
          ELSE inherited

\* check_member whose recursion along a tuple keeps the object being checked
\* instead of moving to the container of the reverse-index entry.
check_member_on_same_object(self, rid, object, user, stack) ==
    IF rid \notin DOMAIN self.sets THEN NoSuchSet
    ELSE IF <<rid, object>> \in stack THEN Diverges
    ELSE
      LET set == self.sets[rid]
          running == stack \cup {<<rid, object>>}
          direct ==
              /\ object \in DOMAIN set.direct_members
              /\ User(user) \in set.direct_members[object]
          contained ==
              check_first(self,
                  [i \in 1..Len(iter_rids(set.contained_relationships)) |->
                      <<iter_rids(set.contained_relationships)[i], object>>],
                  user, running)
          inherited_present_memberships ==
              SelectSeq(iter_memberships(self.memberships[Object(object)]),
                        LAMBDA m : m.rid \in set.inherited_relationships)
          inherited ==
              check_first(self,
                  [i \in 1..Len(inherited_present_memberships) |->
                      <<inherited_present_memberships[i].rid,
                        object>>],
                  user, running)
      IN  IF direct THEN Ok(TRUE)
          ELSE IF contained # Ok(FALSE) THEN contained
          ELSE IF Object(object) \notin DOMAIN self.memberships THEN Ok(FALSE)
          ELSE inherited

\* check_member that answers false for a relationship that is not defined.
check_member_on_unknown_is_false(self, rid, object, user, stack) ==
    IF rid \notin DOMAIN self.sets THEN Ok(FALSE)
    ELSE IF <<rid, object>> \in stack THEN Diverges
    ELSE
      LET set == self.sets[rid]
          running == stack \cup {<<rid, object>>}
          direct ==
              /\ object \in DOMAIN set.direct_members
              /\ User(user) \in set.direct_members[object]
          contained ==
              check_first(self,
                  [i \in 1..Len(iter_rids(set.contained_relationships)) |->
                      <<iter_rids(set.contained_relationships)[i], object>>],
                  user, running)
          inherited_present_memberships ==
              SelectSeq(iter_memberships(self.memberships[Object(object)]),
                        LAMBDA m : m.rid \in set.inherited_relationships)
          inherited ==
              check_first(self,
                  [i \in 1..Len(inherited_present_memberships) |->
                      <<inherited_present_memberships[i].rid,
                        inherited_present_memberships[i].object>>],
                  user, running)
      IN  IF direct THEN Ok(TRUE)
          ELSE IF contained # Ok(FALSE) THEN contained
          ELSE IF Object(object) \notin DOMAIN self.memberships THEN Ok(FALSE)
          ELSE inherited

\* check_member that looks at the direct members after the contained
\* relationships.
check_member_on_direct_last(self, rid, object, user, stack) ==
    IF rid \notin DOMAIN self.sets THEN NoSuchSet
    ELSE IF <<rid, object>> \in stack THEN Diverges
    ELSE
      LET set == self.sets[rid]
          running == stack \cup {<<rid, object>>}
          direct ==
              /\ object \in DOMAIN set.direct_members
              /\ User(user) \in set.direct_members[object]
          contained ==
              check_first(self,
                  [i \in 1..Len(iter_rids(set.contained_relationships)) |->
                      <<iter_rids(set.contained_relationships)[i], object>>],
                  user, running)
          inherited_present_memberships ==
              SelectSeq(iter_memberships(self.memberships[Object(object)]),
                        LAMBDA m : m.rid \in set.inherited_relationships)
          inherited ==
              check_first(self,
                  [i \in 1..Len(inherited_present_memberships) |->
                      <<inherited_present_memberships[i].rid,
                        inherited_present_memberships[i].object>>],
                  user, running)
      IN  IF contained # Ok(FALSE) THEN contained
          ELSE IF direct THEN Ok(TRUE)
          ELSE IF Object(object) \notin DOMAIN self.memberships THEN Ok(FALSE)
          ELSE inherited

\* check_member that returns what the entry of the object says whenever the
\* object has an entry in direct_members.
check_member_on_entry_decides(self, rid, object, user, stack) ==
    IF rid \notin DOMAIN self.sets THEN NoSuchSet
    ELSE IF <<rid, object>> \in stack THEN Diverges
    ELSE
      LET set == self.sets[rid]
          running == stack \cup {<<rid, object>>}
          direct ==
              /\ object \in DOMAIN set.direct_members
              /\ User(user) \in set.direct_members[object]
          contained ==
              check_first(self,
                  [i \in 1..Len(iter_rids(set.contained_relationships)) |->
                      <<iter_rids(set.contained_relationships)[i], object>>],
                  user, running)
          inherited_present_memberships ==
              SelectSeq(iter_memberships(self.memberships[Object(object)]),
                        LAMBDA m : m.rid \in set.inherited_relationships)
          inherited ==
              check_first(self,
                  [i \in 1..Len(inherited_present_memberships) |->
                      <<inherited_present_memberships[i].rid,
                        inherited_present_memberships[i].object>>],
                  user, running)
      IN  IF object \in DOMAIN set.direct_members THEN Ok(direct)
          ELSE IF contained # Ok(FALSE) THEN contained
          ELSE IF Object(object) \notin DOMAIN self.memberships THEN Ok(FALSE)
          ELSE inherited

\* MiniZ::check_member, called while the calls in `stack` are still
\* running.  The store does not change during a check, so a call whose
\* (rid, object) is already on the stack repeats its caller for ever.
check_member_on(self, rid, object, user, stack) ==
    IF rid \notin DOMAIN self.sets THEN NoSuchSet
    ELSE IF <<rid, object>> \in stack THEN Diverges
    ELSE
      LET set == self.sets[rid]
          running == stack \cup {<<rid, object>>}
          direct ==
              /\ object \in DOMAIN set.direct_members
              /\ User(user) \in set.direct_members[object]
          contained ==
              check_first(self,
                  [i \in 1..Len(iter_rids(set.contained_relationships)) |->
                      <<iter_rids(set.contained_relationships)[i], object>>],
                  user, running)
          inherited_present_memberships ==
              SelectSeq(iter_memberships(self.memberships[Object(object)]),
                        LAMBDA m : m.rid \in set.inherited_relationships)
          inherited ==
              check_first(self,
                  [i \in 1..Len(inherited_present_memberships) |->
                      <<inherited_present_memberships[i].rid,
                        inherited_present_memberships[i].object>>],
                  user, running)
      IN  IF direct THEN Ok(TRUE)
          ELSE IF contained # Ok(FALSE) THEN contained
          ELSE IF Object(object) \notin DOMAIN self.memberships THEN Ok(FALSE)
          ELSE inherited

\* The loops of check_member: the calls are made in order, and the first
\* one that does not return false ends the loop.
check_first(self, calls, user, stack) ==
    IF calls = <<>> THEN Ok(FALSE)
    ELSE LET r == check_member_on(self, Head(calls)[1], Head(calls)[2], user, stack)
         IN  IF r # Ok(FALSE) THEN r
             ELSE check_first(self, Tail(calls), user, stack)

\* MiniZ::check_member
check_member(self, rid, object, user) ==
    Outcome(self, check_member_on(self, rid, object, user, {}))

\* ------------------------------------------------------------------------
\* The state machine: one store, used by one caller, one call at a time.

VARIABLES
    miniz_builder,  \* the MiniZBuilder value: [relationships]
    built,  \* the RelationshipBuilders built on it so far, in order, each
            \* with the RelationshipId its build returned
    miniz,  \* the MiniZ value: [sets, memberships]
    last,   \* the last call made and how it ended (and, for a write, its
            \* arguments)
    pc      \* "building" until MiniZBuilder::build, then "ready", or
            \* "panicked" / "hung" once a call did not return

vars == <<miniz_builder, built, miniz, last, pc>>

\* The direct tuples a store holds, as (rid, container object, member).
Tuples(self) ==
    {t \in (DOMAIN self.sets) \X ObjectIds \X Members :
        /\ t[2] \in DOMAIN self.sets[t[1]].direct_members
        /\ t[3] \in self.sets[t[1]].direct_members[t[2]]}

\* The entries of the reverse index, as (rid, container object, member).
IndexEntries(self) ==
    {t \in RelationshipIds \X ObjectIds \X Members :
        /\ t[3] \in DOMAIN self.memberships
        /\ Membership(t[1], t[2]) \in self.memberships[t[3]]}

\* The store of test_example, freshly built (the builds that configured its
\* builder are not kept).
Init ==
    /\ miniz_builder = ExampleBuilder
    /\ built = <<>>
    /\ miniz = MiniZBuilder_build(miniz_builder)
    /\ last = [op |-> "build", args |-> <<>>, result |-> OkUnit]
    /\ pc = "ready"

\* A store freshly built from any of the configurations.
InitAnySchema ==
    /\ miniz_builder \in Builders
    /\ built = <<>>
    /\ miniz = MiniZBuilder_build(miniz_builder)
    /\ last = [op |-> "build", args |-> <<>>, result |-> OkUnit]
    /\ pc = "ready"

\* How a call ended, without the value it returned.
Ended(result) == IF result.status = "ok" THEN OkUnit ELSE result

\* A call returns, panics or never returns; only a call that returns
\* leaves the caller able to make another one.
Call(op, args, out) ==
    /\ pc = "ready"
    /\ miniz' = out.self
    /\ last' = [op |-> op, args |-> args, result |-> Ended(out.result)]
    /\ pc' = CASE out.result.status = "ok" -> "ready"
               [] out.result.status = "panic" -> "panicked"
               [] OTHER -> "hung"
    /\ UNCHANGED <<miniz_builder, built>>

WriteObject ==
    /\ Cardinality(Tuples(miniz)) < MaxTuples
    /\ \E rid \in RelationshipIds, parent \in ObjectIds, child \in ObjectIds :
        Call("write_object", <<rid, parent, Object(child)>>,
                write_object(miniz, rid, parent, child))

WriteUser ==
    /\ Cardinality(Tuples(miniz)) < MaxTuples
    /\ \E rid \in RelationshipIds, parent \in ObjectIds, child \in UserIds :
        Call("write_user", <<rid, parent, User(child)>>,
                write_user(miniz, rid, parent, child))

SetContainsObjectDirectly ==
    \E rid \in RelationshipIds, parent \in ObjectIds, child \in ObjectIds :
        Call("set_contains_object_directly", <<>>,
             set_contains_object_directly(miniz, rid, parent, child))

SetContainsUserDirectly ==
    \E rid \in RelationshipIds, parent \in ObjectIds, child \in UserIds :
        Call("set_contains_user_directly", <<>>,
             set_contains_user_directly(miniz, rid, parent, child))

SetListDirectMembers ==
    \E rid \in RelationshipIds, parent \in ObjectIds :
        Call("set_list_direct_members", <<>>,
             set_list_direct_members(miniz, rid, parent))

ObjectLookupMemberships ==
    \E object \in ObjectIds :
        Call("object_lookup_memberships", <<>>,
             object_lookup_memberships(miniz, object))

UserLookupMemberships ==
    \E user \in UserIds :
        Call("user_lookup_memberships", <<>>,
             user_lookup_memberships(miniz, user))

CheckMember ==
    \E rid \in RelationshipIds, object \in ObjectIds, user \in UserIds :
        Call("check_member", <<>>,
             check_member(miniz, rid, object, user))

Next ==
    \/ WriteObject
    \/ WriteUser
    \/ SetContainsObjectDirectly
    \/ SetContainsUserDirectly
    \/ SetListDirectMembers
    \/ ObjectLookupMemberships
    \/ UserLookupMemberships
    \/ CheckMember

Spec == Init /\ [][Next]_vars

SpecAnySchema == InitAnySchema /\ [][Next]_vars

\* A store freshly built from a configuration with a cycle.
InitCyclic ==
    /\ miniz_builder \in CyclicBuilders
    /\ built = <<>>
    /\ miniz = MiniZBuilder_build(miniz_builder)
    /\ last = [op |-> "build", args |-> <<>>, result |-> OkUnit]
    /\ pc = "ready"

SpecCyclic == InitCyclic /\ [][Next]_vars

\* A store freshly built from the configuration in which "parent" inherits
\* itself.
InitSelfInherit ==
    /\ miniz_builder = SelfInheritBuilder
    /\ built = <<>>
    /\ miniz = MiniZBuilder_build(miniz_builder)
    /\ last = [op |-> "build", args |-> <<>>, result |-> OkUnit]
    /\ pc = "ready"

SpecSelfInherit == InitSelfInherit /\ [][Next]_vars

\* ------------------------------------------------------------------------
\* Building: relationships are registered on a MiniZBuilder, then
\* MiniZBuilder::build makes the store.

\* The names registered, the RelationshipIds passed to with_subset and
\* those passed to with_inherited_set.
BuilderNames == {"parent", "viewer"}

BuilderSubsets == {"editor", "owner"}

BuilderInherited == {"parent"}

MaxRelationships == 3

RECURSIVE with_subsets(_, _)
\* .with_subset(..) chained once for each id of the sequence.
with_subsets(rb, subrids) ==
    IF subrids = <<>> THEN rb
    ELSE with_subsets(with_subset(rb, Head(subrids)), Tail(subrids))

RECURSIVE with_inherited_sets(_, _)
\* .with_inherited_set(..) chained once for each id of the sequence.
with_inherited_sets(rb, rids) ==
    IF rids = <<>> THEN rb
    ELSE with_inherited_sets(with_inherited_set(rb, Head(rids)), Tail(rids))

\* MiniZ::builder: nothing registered, no store yet (miniz has no meaning
\* before MiniZBuilder::build).
InitBuilder ==
    /\ miniz_builder = MiniZ_builder
    /\ built = <<>>
    /\ miniz = MiniZBuilder_build(MiniZ_builder)
    /\ last = [op |-> "builder", args |-> <<>>, result |-> OkUnit]
    /\ pc = "building"

\* new_relationship(name).with_subset(..)..with_inherited_set(..).build()
RelationshipBuilderBuild ==
    /\ pc = "building"
    /\ Len(built) < MaxRelationships
    /\ \E name \in BuilderNames, subrids \in SUBSET BuilderSubsets,
          rids \in SUBSET BuilderInherited :
          LET rb == with_inherited_sets(
                        with_subsets(new_relationship(name), iter_rids(subrids)),
                        iter_rids(rids))
          IN  /\ miniz_builder' = RelationshipBuilder_build(miniz_builder, rb)
              /\ built' = Append(built,
                              [rb |-> rb,
                               rid |-> RelationshipBuilder_build_rid(rb)])
    /\ last' = [op |-> "relationship_build", args |-> <<>>, result |-> OkUnit]
    /\ UNCHANGED <<miniz, pc>>

\* MiniZBuilder::build
MiniZBuilderBuild ==
    /\ pc = "building"
    /\ miniz' = MiniZBuilder_build(miniz_builder)
    /\ last' = [op |-> "build", args |-> <<>>, result |-> OkUnit]
    /\ pc' = "ready"
    /\ UNCHANGED <<miniz_builder, built>>

NextBuilder ==
    \/ RelationshipBuilderBuild
    \/ MiniZBuilderBuild

SpecBuilder == InitBuilder /\ [][NextBuilder]_vars

\* ------------------------------------------------------------------------
\* Vocabulary of the properties.

WriteOps == {"write_object", "write_user"}

ReadOps == {"set_contains_object_directly", "set_contains_user_directly",
            "set_list_direct_members", "object_lookup_memberships",
            "user_lookup_memberships", "check_member"}

\* set_contains_object_directly / set_contains_user_directly, by the kind
\* of the member.
ContainsDirectly(self, rid, parent, member) ==
    IF member.tag = "Object"
    THEN set_contains_object_directly(self, rid, parent, member.id).result
    ELSE set_contains_user_directly(self, rid, parent, member.id).result

\* object_lookup_memberships / user_lookup_memberships, by the kind of the
\* member.
LookupMemberships(self, member) ==
    IF member.tag = "Object"
    THEN object_lookup_memberships(self, member.id).result
    ELSE user_lookup_memberships(self, member.id).result

Occurrences(seq, x) == Cardinality({i \in 1..Len(seq) : seq[i] = x})

Check(rid, object, user) == check_member(miniz, rid, object, user).result

Defined == DOMAIN miniz.sets

\* Every relationship named in a contained set is defined.
ContainedAreDefined ==
    \A r \in Defined : miniz.sets[r].contained_relationships \subseteq Defined

\* r names s in its contained or inherited set.
SchemaEdge(r, s) ==
    /\ r \in Defined
    /\ s \in miniz.sets[r].contained_relationships
              \cup miniz.sets[r].inherited_relationships

ContainedEdge(r, s) ==
    r \in Defined /\ s \in miniz.sets[r].contained_relationships

RECURSIVE ReachIn(_, _, _)
\* The relationships reached from those in `from` by 1..n edges.
ReachIn(Edge(_, _), from, n) ==
    IF n = 0 THEN {}
    ELSE LET next == {s \in RelationshipIds : \E r \in from : Edge(r, s)}
         IN  next \cup ReachIn(Edge, next, n - 1)

\* r contains s through a chain of one or more contained edges.
ContainsTransitively(r, s) ==
    s \in ReachIn(ContainedEdge, {r}, Len(RidOrder))

\* The contained/inherited graph of the schema has no cycle.
SchemaAcyclic ==
    \A r \in RelationshipIds : r \notin ReachIn(SchemaEdge, {r}, Len(RidOrder))

\* ------------------------------------------------------------------------
\* C1.  Inheritance composition: where "viewer" inherits "parent" and object
\* O is a direct "parent" member of container P, every user for whom
\* check_member(viewer, P, U) is true also has check_member(viewer, O, U)
\* true.
C1_InheritanceComposition ==
    \A P \in ObjectIds, O \in ObjectIds, U \in UserIds :
        ( /\ "viewer" \in Defined
          /\ "parent" \in miniz.sets["viewer"].inherited_relationships
          /\ ContainsDirectly(miniz, "parent", P, Object(O)) = Ok(TRUE)
          /\ Check("viewer", P, U) = Ok(TRUE) )
        => Check("viewer", O, U) = Ok(TRUE)

\* C2.  Direct-write round trip: right after a successful write of
\* (R, P, M), M is directly contained in (R, P), is listed exactly once by
\* set_list_direct_members(R, P), and the reverse lookup of M lists
\* Membership(R, P) exactly once.
C2_WriteRoundTrip ==
    (last.op \in WriteOps /\ last.result.status = "ok") =>
        LET R == last.args[1]
            P == last.args[2]
            M == last.args[3]
            listed == set_list_direct_members(miniz, R, P).result
            found == LookupMemberships(miniz, M)
        IN  /\ ContainsDirectly(miniz, R, P, M) = Ok(TRUE)
            /\ listed.status = "ok"
            /\ Occurrences(listed.list, M) = 1
            /\ found.status = "ok"
            /\ Occurrences(found.list, Membership(R, P)) = 1

\* A successful write into a set, and under a member, that already held
\* another tuple.
C2_Witness ==
    /\ last.op = "write_user"
    /\ last.result.status = "ok"
    /\ Len(set_list_direct_members(miniz, last.args[1], last.args[2]).result.list) = 2
    /\ Len(LookupMemberships(miniz, last.args[3]).list) = 1

\* C3.  Reverse-index consistency: in every reachable state, after
\* successful and failing writes alike, Membership(R, P) is in the reverse
\* index under M exactly when M is a direct member of (R, P).
C3_ReverseIndexConsistent == Tuples(miniz) = IndexEntries(miniz)

\* A store that holds tuples and on which a write has just failed.
C3_Witness ==
    /\ pc = "panicked"
    /\ last.op = "write_object"
    /\ last.result = AssertionFailed
    /\ Cardinality(Tuples(miniz)) >= 1

\* C4 as first stated.  Implication transitivity: in a schema without
\* cycles, if R reaches R1 by a chain of contained edges and user U is a
\* direct member of (R1, O), then check_member(R, O, U) returns true (for
\* every relationship R on the chain).
C4_TransitivityInAnyAcyclicSchema ==
    SchemaAcyclic =>
        \A R \in Defined, R1 \in Defined, O \in ObjectIds, U \in UserIds :
            ( /\ ContainsTransitively(R, R1)
              /\ ContainsDirectly(miniz, R1, O, User(U)) = Ok(TRUE) )
            => Check(R, O, U) = Ok(TRUE)

\* C4, amended.  Implication transitivity: in a schema without cycles whose
\* contained sets name only defined relationships, if R reaches R1 by a
\* chain of contained edges and user U is a direct member of (R1, O), then
\* check_member(R, O, U) returns true.
C4_ImplicationTransitivity ==
    (SchemaAcyclic /\ ContainedAreDefined) =>
        \A R \in Defined, R1 \in Defined, O \in ObjectIds, U \in UserIds :
            ( /\ ContainsTransitively(R, R1)
              /\ ContainsDirectly(miniz, R1, O, User(U)) = Ok(TRUE) )
            => Check(R, O, U) = Ok(TRUE)

\* A user who is a direct owner only, and a viewer through the chain
\* viewer contains editor contains owner.
C4_Witness ==
    /\ SchemaAcyclic
    /\ ContainedAreDefined
    /\ \E O \in ObjectIds, U \in UserIds :
        /\ ContainsDirectly(miniz, "owner", O, User(U)) = Ok(TRUE)
        /\ ContainsDirectly(miniz, "editor", O, User(U)) = Ok(FALSE)
        /\ ContainsDirectly(miniz, "viewer", O, User(U)) = Ok(FALSE)
        /\ ContainsTransitively("viewer", "owner")
        /\ ~ContainedEdge("viewer", "owner")
        /\ Check("viewer", O, U) = Ok(TRUE)
        /\ Check("editor", O, U) = Ok(TRUE)

\* The only tuple with user U on object O is the direct tuple (R, O, U).
OnlyTupleOn(R, O, U) ==
    {t \in Tuples(miniz) : t[2] = O /\ t[3] = User(U)} = {<<R, O, User(U)>>}

\* O is the member of no tuple whose relationship some relationship inherits.
NoInheritableEdgesOn(O) ==
    \A t \in Tuples(miniz) :
        t[3] = Object(O) =>
            \A r \in Defined : t[1] \notin miniz.sets[r].inherited_relationships

\* C5 as first stated.  Implication is unidirectional: if Rlow contains
\* Rhigh, Rhigh does not transitively contain Rlow, the only tuple of user U
\* on object O is a direct Rlow tuple and O has no inheritable edges, then
\* check_member(Rhigh, O, U) returns false.
C5_UnidirectionalInAnySchema ==
    \A Rlow \in Defined, Rhigh \in Defined, O \in ObjectIds, U \in UserIds :
        ( /\ ContainedEdge(Rlow, Rhigh)
          /\ ~ContainsTransitively(Rhigh, Rlow)
          /\ OnlyTupleOn(Rlow, O, U)
          /\ NoInheritableEdgesOn(O) )
        => Check(Rhigh, O, U) = Ok(FALSE)

\* C5, amended.  Implication is unidirectional: in a schema without cycles
\* whose contained sets name only defined relationships, if Rlow contains
\* Rhigh, Rhigh does not transitively contain Rlow, the only tuple of user U
\* on object O is a direct Rlow tuple and O has no inheritable edges, then
\* check_member(Rhigh, O, U) returns false.
C5_ImplicationUnidirectional ==
    (SchemaAcyclic /\ ContainedAreDefined) =>
        \A Rlow \in Defined, Rhigh \in Defined, O \in ObjectIds, U \in UserIds :
            ( /\ ContainedEdge(Rlow, Rhigh)
              /\ ~ContainsTransitively(Rhigh, Rlow)
              /\ OnlyTupleOn(Rlow, O, U)
              /\ NoInheritableEdgesOn(O) )
            => Check(Rhigh, O, U) = Ok(FALSE)

\* A direct viewer of dir1, and of nothing else, who is neither an editor
\* nor an owner of dir1, while another user is a direct editor of dir1.
C5_Witness ==
    /\ SchemaAcyclic
    /\ ContainedAreDefined
    /\ OnlyTupleOn("viewer", dir1, user_bob)
    /\ ContainsDirectly(miniz, "editor", dir1, User(user_alice)) = Ok(TRUE)
    /\ NoInheritableEdgesOn(dir1)
    /\ Check("viewer", dir1, user_bob) = Ok(TRUE)
    /\ Check("editor", dir1, user_bob) = Ok(FALSE)
    /\ Check("owner", dir1, user_bob) = Ok(FALSE)

\* C6.  Duplicate writes fail and do not overwrite: a write of a triple
\* that the store already holds fails its assertion and leaves the direct
\* members and the reverse index exactly as they were.
C6_DuplicateWriteFails ==
    [][ ( /\ pc = "ready"
          /\ last'.op \in WriteOps
          /\ <<last'.args[1], last'.args[2], last'.args[3]>> \in Tuples(miniz) )
        => ( /\ last'.result = AssertionFailed
             /\ pc' = "panicked"
             /\ miniz' = miniz ) ]_vars

\* A write of a triple the store already held has just failed.
C6_Witness ==
    /\ last.op \in WriteOps
    /\ last.result = AssertionFailed
    /\ <<last.args[1], last.args[2], last.args[3]>> \in Tuples(miniz)
    /\ Cardinality(Tuples(miniz)) = 1

\* C7.  Unknown relationships are reported, not hidden: a call with a
\* RelationshipId that the schema does not define ends in an error that the
\* caller can recover from: the store is unchanged and can still be used.
C7_UnknownRelationshipRecoverable ==
    (last.result = NoSuchSet) => pc = "ready"

\* C8.  Non-existence is total: for a defined relationship and an object
\* that holds no member under it, set_contains_*_directly returns false and
\* set_list_direct_members returns the empty sequence; the reverse lookup of
\* a member of no tuple returns the empty sequence.
C8_NonExistenceTotal ==
    /\ \A rid \in Defined, P \in ObjectIds :
        (~\E t \in Tuples(miniz) : t[1] = rid /\ t[2] = P) =>
            /\ \A M \in Members : ContainsDirectly(miniz, rid, P, M) = Ok(FALSE)
            /\ set_list_direct_members(miniz, rid, P).result = OkVec(<<>>)
    /\ \A M \in Members :
        (~\E t \in Tuples(miniz) : t[3] = M) =>
            LookupMemberships(miniz, M) = OkVec(<<>>)

\* dir1 holds members under "owner" and alice is a member of a tuple, while
\* doc123 holds no member at all and bob and doc123 are members of nothing.
C8_Witness ==
    /\ \E t \in Tuples(miniz) : t[1] = "owner" /\ t[2] = dir1 /\ t[3] = User(user_alice)
    /\ ~\E t \in Tuples(miniz) : t[2] = doc123
    /\ ~\E t \in Tuples(miniz) : t[3] \in {User(user_bob), Object(doc123)}
    /\ last.op = "set_list_direct_members"
    /\ last.result.status = "ok"
    /\ set_list_direct_members(miniz, "owner", doc123).result = OkVec(<<>>)

\* C9.  Read operations are pure: check_member, set_contains_*_directly,
\* set_list_direct_members and the two reverse lookups leave the schema,
\* the direct members and the reverse index as they were, whatever they
\* are asked and however they end.
C9_ReadsArePure ==
    [][ (last'.op \in ReadOps) => (miniz' = miniz) ]_vars

\* A check has returned on a store with tuples in which the checks of
\* "viewer" recurse through contained and inherited relationships and find
\* nothing, and in which doc123 has no entry of direct members.
C9_Witness ==
    /\ last.op = "check_member"
    /\ last.result.status = "ok"
    /\ Cardinality(Tuples(miniz)) = 2
    /\ Object(doc123) \in DOMAIN miniz.memberships
    /\ Check("viewer", doc123, user_bob) = Ok(FALSE)
    /\ \A rid \in Defined : doc123 \notin DOMAIN miniz.sets[rid].direct_members

\* C10.  Tuples persist: a tuple the store holds is held after every later
\* call, and so is its reverse-index entry.
C10_TuplesPersist ==
    [][ /\ \A t \in Tuples(miniz) :
            ContainsDirectly(miniz', t[1], t[2], t[3]) = Ok(TRUE)
        /\ IndexEntries(miniz) \subseteq IndexEntries(miniz') ]_vars

\* A second member has been written into a set that already held one.
C10_Witness ==
    /\ last.op = "write_object"
    /\ last.result.status = "ok"
    /\ \E rid \in Defined, P \in ObjectIds :
        /\ P \in DOMAIN miniz.sets[rid].direct_members
        /\ Cardinality(miniz.sets[rid].direct_members[P]) = 2

\* ------------------------------------------------------------------------
\* C11.  Deterministic listing order: set_list_direct_members(R, P) returns
\* every direct member of (R, P) exactly once, all Object members before
\* all User members and each group in ascending order of its identifier,
\* whatever the order of the writes was.
C11_ListingOrder ==
    \A R \in Defined, P \in ObjectIds :
        LET list == set_list_direct_members(miniz, R, P).result.list
            direct == {m \in Members :
                          ContainsDirectly(miniz, R, P, m) = Ok(TRUE)}
        IN  /\ Len(list) = Cardinality(direct)
            /\ \A m \in direct : Occurrences(list, m) = 1
            /\ \A i \in 1..Len(list), j \in 1..Len(list) :
                   i < j =>
                       /\ list[i].tag = "User" => list[j].tag = "User"
                       /\ list[i].tag = list[j].tag => list[i].id < list[j].id

\* An Object was written into a container that already held a User, and is
\* listed before it.
C11_Witness ==
    /\ last.op = "write_object"
    /\ last.result.status = "ok"
    /\ \E u \in UserIds :
           set_list_direct_members(miniz, last.args[1], last.args[2]).result.list
               = <<last.args[3], User(u)>>

\* The configuration of a store: the defined relationships with their
\* contained and inherited sets.
SchemaOf(self) ==
    [r \in DOMAIN self.sets |->
        [contained_relationships |-> self.sets[r].contained_relationships,
         inherited_relationships |-> self.sets[r].inherited_relationships]]

\* C12.  The schema is frozen: in every state reachable after
\* MiniZBuilder::build the defined RelationshipIds and the contained and
\* inherited sets of each relationship are those the builder produced.
C12_SchemaFrozen ==
    SchemaOf(miniz) = SchemaOf(MiniZBuilder_build(ExampleBuilder))

\* A user was written into "viewer", which has a contained and an inherited
\* relationship.
C12_Witness ==
    /\ last.op = "write_user"
    /\ last.result.status = "ok"
    /\ last.args[1] = "viewer"
    /\ miniz.sets["viewer"].contained_relationships # {}
    /\ miniz.sets["viewer"].inherited_relationships # {}

\* ------------------------------------------------------------------------
\* Cycles.

\* r lies on a cycle of contained edges.
OnContainedCycle(r) == ContainsTransitively(r, r)

\* r lies on a cycle of contained/inherited edges.
OnSchemaCycle(r) == r \in ReachIn(SchemaEdge, {r}, Len(RidOrder))

\* Object a is a direct member of container b under a relationship in rids.
TupleEdge(rids, a, b) ==
    \E r \in rids \cap Defined :
        ContainsDirectly(miniz, r, b, Object(a)) = Ok(TRUE)

RECURSIVE ReachObjects(_, _, _)
\* The containers reached from the objects in `from` by 1..n tuples of the
\* relationships in rids, each from a member to its container.
ReachObjects(rids, from, n) ==
    IF n = 0 THEN {}
    ELSE LET next == {b \in ObjectIds : \E a \in from : TupleEdge(rids, a, b)}
         IN  next \cup ReachObjects(rids, next, n - 1)

\* Object o lies on a cycle of tuples of the relationships in rids.
OnTupleCycle(rids, o) == o \in ReachObjects(rids, {o}, Cardinality(ObjectIds))

\* The object-to-object graph of the written tuples has no cycle.
ObjectGraphAcyclic ==
    \A o \in ObjectIds : ~OnTupleCycle(RelationshipIds, o)

\* C13 as stated.  A check against a schema whose contained/inherited graph
\* has a cycle through R, or against a store with a cycle of tuples of the
\* relationships R inherits through O, never returns.
C13_AnyCycleDiverges ==
    \A R \in Defined, O \in ObjectIds, U \in UserIds :
        ( \/ OnSchemaCycle(R)
          \/ OnTupleCycle(miniz.sets[R].inherited_relationships, O) )
        => Check(R, O, U) = Diverges

\* C13.  check_member has no cycle or depth guard: when R lies on a cycle
\* of contained edges, or R inherits itself and O lies on a cycle of R
\* tuples, check_member(R, O, U) never returns false; it returns true when
\* it finds a proof before it re-enters the cycle, panics when it meets an
\* undefined relationship first, and otherwise never returns.
C13_CyclesNeverFalse ==
    \A R \in Defined, O \in ObjectIds, U \in UserIds :
        ( \/ OnContainedCycle(R)
          \/ /\ R \in miniz.sets[R].inherited_relationships
             /\ OnTupleCycle({R}, O) )
        => Check(R, O, U) # Ok(FALSE)

\* A check of a relationship that inherits itself, on an object on a cycle
\* of its tuples, was called and never returned.
C13_Witness ==
    /\ last.op = "check_member"
    /\ pc = "hung"
    /\ \A R \in Defined : ~OnContainedCycle(R)
    /\ \E R \in Defined, O \in ObjectIds :
           /\ R \in miniz.sets[R].inherited_relationships
           /\ OnTupleCycle({R}, O)

\* ------------------------------------------------------------------------
\* The three rules of check_member, as rules of derivation over the facts
\* <<R, O, U>>.

Facts == Defined \X ObjectIds \X UserIds

\* The reverse-index entries of Object(o) that r inherits through.
InheritedEntries(r, o) ==
    IF Object(o) \in DOMAIN miniz.memberships
    THEN {m \in miniz.memberships[Object(o)] :
             m.rid \in miniz.sets[r].inherited_relationships}
    ELSE {}

\* The facts that follow in one step from those in D.
Rules(D) ==
    {f \in Facts :
        \/ ContainsDirectly(miniz, f[1], f[2], User(f[3])) = Ok(TRUE)
        \/ \E r1 \in miniz.sets[f[1]].contained_relationships :
               <<r1, f[2], f[3]>> \in D
        \/ \E m \in InheritedEntries(f[1], f[2]) :
               <<m.rid, m.object, f[3]>> \in D}

RECURSIVE LeastFixedPoint(_)
LeastFixedPoint(D) ==
    LET next == Rules(D)
    IN  IF next = D THEN D ELSE LeastFixedPoint(next)

C15_TerminatesOnAcyclic ==
    ( /\ \A r \in Defined : ~OnContainedCycle(r)
      /\ ObjectGraphAcyclic )
    => \A R \in Defined, O \in ObjectIds, U \in UserIds :
           Check(R, O, U) # Diverges

\* A check returned in a store without cycles where a relationship that
\* inherits itself has an object as a member of a container.
C15_Witness ==
    /\ last.op = "check_member"
    /\ pc = "ready"
    /\ \A r \in Defined : ~OnContainedCycle(r)
    /\ ObjectGraphAcyclic
    /\ \E R \in Defined, a \in ObjectIds, b \in ObjectIds :
           /\ R \in miniz.sets[R].inherited_relationships
           /\ TupleEdge({R}, a, b)

\* C16.  A schema whose contained sets name only defined relationships
\* never makes check_member fail with "no such set": check_member of a
\* defined relationship does not panic in any store reachable by writes,
\* even where an inherited set names an undefined relationship, because
\* every Membership in the reverse index carries a defined RelationshipId.
C16_NoUnknownInsideCheck ==
    ContainedAreDefined =>
        /\ \A member \in DOMAIN miniz.memberships :
               \A m \in miniz.memberships[member] : m.rid \in Defined
        /\ \A R \in Defined, O \in ObjectIds, U \in UserIds :
               Check(R, O, U) # NoSuchSet

\* A check was called where a relationship with an undefined name in its
\* inherited set is checked on an object that has an entry it inherits
\* through.
C16_Witness ==
    /\ last.op = "check_member"
    /\ ContainedAreDefined
    /\ \E R \in Defined, O \in ObjectIds :
           /\ ~(miniz.sets[R].inherited_relationships \subseteq Defined)
           /\ InheritedEntries(R, O) # {}

\* An undefined relationship is reached from r through contained edges.
ReachesUndefined(r) ==
    \E s \in ReachIn(ContainedEdge, {r}, Len(RidOrder)) : s \notin Defined

\* C17.  An undefined relationship never silently becomes false: when an
\* undefined RelationshipId is reachable from R through contained edges, a
\* check_member(R, O, U) that terminates either returns true or panics with
\* "no such set"; it never returns false.
C17_UndefinedNeverFalse ==
    \A R \in Defined, O \in ObjectIds, U \in UserIds :
        (ReachesUndefined(R) /\ Check(R, O, U) # Diverges)
        => Check(R, O, U) \in {Ok(TRUE), NoSuchSet}

\* A check was called in a store where one check that reaches an undefined
\* relationship is true without a direct member, and another panics.
C17_Witness ==
    /\ last.op = "check_member"
    /\ \E R \in Defined, O \in ObjectIds, U \in UserIds :
           /\ ReachesUndefined(R)
           /\ Check(R, O, U) = Ok(TRUE)
           /\ ContainsDirectly(miniz, R, O, User(U)) = Ok(FALSE)
    /\ \E R \in Defined, O \in ObjectIds, U \in UserIds :
           ReachesUndefined(R) /\ Check(R, O, U) = NoSuchSet

\* C18.  The direct rule comes first and short-circuits: when User U is a
\* direct member of (R, O) and R is defined, check_member(R, O, U) returns
\* true without a recursive call, hence terminates without a panic even
\* where R lies on a cycle or its contained set names an undefined
\* relationship.
C18_DirectRuleFirst ==
    \A R \in Defined, O \in ObjectIds, U \in UserIds :
        ContainsDirectly(miniz, R, O, User(U)) = Ok(TRUE)
        => Check(R, O, U) = Ok(TRUE)

\* A check was called in a store where a user is a direct member under a
\* relationship on a contained cycle and under one whose contained set
\* names an undefined relationship.
C18_Witness ==
    /\ last.op = "check_member"
    /\ pc = "ready"
    /\ \E R \in Defined, O \in ObjectIds, U \in UserIds :
           /\ OnContainedCycle(R)
           /\ ContainsDirectly(miniz, R, O, User(U)) = Ok(TRUE)
    /\ \E R \in Defined, O \in ObjectIds, U \in UserIds :
           /\ ~(miniz.sets[R].contained_relationships \subseteq Defined)
           /\ ContainsDirectly(miniz, R, O, User(U)) = Ok(TRUE)

DirectMembersOf(self, rid, parent) ==
    {m \in Members : ContainsDirectly(self, rid, parent, m) = Ok(TRUE)}

\* The Memberships the reverse lookup of a member lists.
MembershipsOf(self, member) ==
    {LookupMemberships(self, member).list[i] :
        i \in 1..Len(LookupMemberships(self, member).list)}

\* C20.  Write frame: a successful write of (R, P, M) adds M to the direct
\* members of (R, P) and Membership(R, P) to the reverse-index entry of M,
\* and changes nothing else: the direct members of every other pair and
\* the entries of every other member, the container P included, stay as
\* they were, so an object that is only ever a container has an empty
\* reverse lookup.
C20_WriteFrame ==
    [][ (last'.op \in WriteOps /\ last'.result.status = "ok") =>
            LET R == last'.args[1]
                P == last'.args[2]
                M == last'.args[3]
            IN  /\ \A r \in Defined, p \in ObjectIds :
                       DirectMembersOf(miniz', r, p) =
                           DirectMembersOf(miniz, r, p)
                               \cup (IF r = R /\ p = P THEN {M} ELSE {})
                /\ \A m \in Members :
                       MembershipsOf(miniz', m) =
                           MembershipsOf(miniz, m)
                               \cup (IF m = M THEN {Membership(R, P)} ELSE {})
                /\ \A o \in ObjectIds :
                       (\A r \in Defined, p \in ObjectIds :
                            Object(o) \notin DirectMembersOf(miniz', r, p))
                       => object_lookup_memberships(miniz', o).result.list = <<>>
      ]_vars

\* An object was just written into a container that is itself no member of
\* anything, in a store that holds a tuple of another pair.
C20_Witness ==
    /\ last.op = "write_object"
    /\ last.result.status = "ok"
    /\ last.args[3] # Object(last.args[2])
    /\ object_lookup_memberships(miniz, last.args[2]).result.list = <<>>
    /\ \E r \in Defined, p \in ObjectIds :
           /\ <<r, p>> # <<last.args[1], last.args[2]>>
           /\ DirectMembersOf(miniz, r, p) # {}

\* ------------------------------------------------------------------------
\* Sequences of writes.

\* write_object / write_user of the tuple t = <<rid, parent, member>>, by
\* the kind of the member.
Write(self, t) ==
    IF t[3].tag = "Object"
    THEN write_object(self, t[1], t[2], t[3].id)
    ELSE write_user(self, t[1], t[2], t[3].id)

RECURSIVE WriteSeq(_, _)
\* The writes of the tuples of seq, one after the other; a write that does
\* not return ends the sequence.
WriteSeq(self, seq) ==
    IF seq = <<>> THEN Outcome(self, OkUnit)
    ELSE LET first == Write(self, Head(seq))
         IN  IF first.result # OkUnit THEN first
             ELSE WriteSeq(first.self, Tail(seq))

\* The orders in which the tuples of S can be written, each once.
Orders(S) ==
    {seq \in [1..Cardinality(S) -> S] :
        \A i \in DOMAIN seq, j \in DOMAIN seq : seq[i] = seq[j] => i = j}

\* C21.  Writes of distinct tuples commute: writing the tuples of the store
\* into a freshly built store, in any order, succeeds and gives the store
\* itself, so that every direct read, reverse lookup and check_member,
\* being a function of the store, answers the same after any order.
C21_WritesCommute ==
    \A seq \in Orders(Tuples(miniz)) :
        WriteSeq(MiniZBuilder_build(ExampleBuilder), seq)
            = Outcome(miniz, OkUnit)

\* A user was just written into a second container, so that its
\* reverse-index entry was built by two writes.
C21_Witness ==
    /\ last.op = "write_user"
    /\ last.result.status = "ok"
    /\ Len(user_lookup_memberships(miniz, last.args[3].id).result.list) = 2

\* ------------------------------------------------------------------------
\* The last build of a name: the index in `built` of the latest
\* RelationshipBuilder built under the name of the i-th.
LastBuildOf(i) ==
    CHOOSE j \in i..Len(built) :
        /\ built[j].rb.name = built[i].rb.name
        /\ \A k \in j + 1..Len(built) : built[k].rb.name # built[i].rb.name

\* C22.  Redefinition overwrites silently: every build of a relationship
\* succeeds, registered name or not; the builder, and the schema frozen by
\* MiniZBuilder::build, hold one entry for each name built, whose contained
\* and inherited sets are those of the last build of the name alone; and
\* every build of a name returns the same RelationshipId.
C22_RedefinitionOverwrites ==
    /\ DOMAIN miniz_builder.relationships =
           {built[i].rid : i \in 1..Len(built)}
    /\ \A i \in 1..Len(built) :
           LET latest == built[LastBuildOf(i)]
               relationship == miniz_builder.relationships[built[i].rid]
           IN  /\ built[i].rid = latest.rid
               /\ relationship.contained_relationships
                      = latest.rb.contained_relationships
               /\ relationship.inherited_relationships
                      = latest.rb.inherited_relationships
               /\ relationship.direct_members = EmptyMap
    /\ pc = "ready" => SchemaOf(miniz) = SchemaOf(MiniZBuilder_build(miniz_builder))
    /\ pc = "ready" => DOMAIN miniz.sets = {built[i].rid : i \in 1..Len(built)}

\* A store was built after a name was built twice, the second time without
\* some of the contained and inherited relationships of the first.
C22_Witness ==
    /\ pc = "ready"
    /\ \E i \in 1..Len(built), j \in 1..Len(built) :
           /\ i < j
           /\ built[i].rb.name = built[j].rb.name
           /\ ~(built[i].rb.contained_relationships
                    \subseteq built[j].rb.contained_relationships)
           /\ ~(built[i].rb.inherited_relationships
                    \subseteq built[j].rb.inherited_relationships)

====
